---- MODULE Spec2Model ----
(***************************************************************************)
(* Model of the options pricing and strategy analysis engine               *)
(* (options_pricing.py, strategy_payoffs.py, strategy_analyzer.py).        *)
(*                                                                         *)
(* Numbers: every float of the program is a fixed-point integer with       *)
(* SCALE units per 1.0 (a price of 100.0 is 100000, a volatility of 0.20   *)
(* is 200).  Products and quotients are rescaled and rounded down.         *)
(* Optional[float] is a sequence: <<>> is None, <<v>> is the float v.      *)
(* A dict is a function from its keys; the empty dict is <<>>.             *)
(***************************************************************************)
EXTENDS Integers, Sequences, FiniteSets, TLC

\* bs:    the last call of a pricer function, with its arguments and result
\* grid:  the caller's price grid (spot_range)
\* strat: the strategy object
\* res:   the value returned (or the exception raised) by the last call of
\*        calculate_payoff or analyze on strat
VARIABLES bs, grid, strat, res, built, repeated, overridden

vars == <<bs, grid, strat, res, built, repeated, overridden>>

(***************************************************************************)
(* Fixed-point arithmetic                                                  *)
(***************************************************************************)
SCALE == 1000

Max(a, b) == IF a >= b THEN a ELSE b

Min(a, b) == IF a <= b THEN a ELSE b

Abs(a) == IF a >= 0 THEN a ELSE -a

\* a / b on floats
Div(a, b) == (a * SCALE) \div b

\* a * b on floats
Mul(a, b) == (a * b) \div SCALE

\* np.sqrt: Newton iteration on the integer square root of x * SCALE
RECURSIVE SqrtIter(_, _)
SqrtIter(n, r) ==
    LET s == (r + n \div r) \div 2
    IN IF s >= r THEN r ELSE SqrtIter(n, s)

Sqrt(x) == IF x <= 0 THEN 0 ELSE SqrtIter(x * SCALE, x * SCALE)

\* np.log: ln x = 2 atanh((x - 1)/(x + 1)), odd series up to the 7th power
Ln(x) ==
    LET z  == Div(x - SCALE, x + SCALE)
        z2 == Mul(z, z)
        z3 == Mul(z2, z)
        z5 == Mul(z3, z2)
        z7 == Mul(z5, z2)
    IN 2 * (z + z3 \div 3 + z5 \div 5 + z7 \div 7)

\* np.exp: Taylor polynomial of degree 4 (arguments are -rate * time, small)
Exp(x) ==
    LET x2 == Mul(x, x)
        x3 == Mul(x2, x)
        x4 == Mul(x3, x)
    IN SCALE + x + x2 \div 2 + x3 \div 6 + x4 \div 24

\* Standard normal: values at 0, 0.25, ..., 4.0, linear in between
TableStep == 250

CdfTable == <<500, 599, 691, 773, 841, 894, 933, 960, 977,
              988, 994, 997, 999, 999, 1000, 1000, 1000>>

PdfTable == <<399, 387, 352, 301, 242, 183, 130, 86, 54,
              32, 18, 9, 4, 2, 1, 0, 0>>

Interp(table, z) ==
    LET i == z \div TableStep
    IN IF i + 1 >= Len(table)
       THEN table[Len(table)]
       ELSE table[i + 1]
            + ((table[i + 2] - table[i + 1]) * (z - i * TableStep)) \div TableStep

\* scipy.stats.norm.cdf
Cdf(z) == IF z >= 0 THEN Interp(CdfTable, z) ELSE SCALE - Interp(CdfTable, -z)

\* scipy.stats.norm.pdf
Pdf(z) == Interp(PdfTable, Abs(z))

(***************************************************************************)
(* options_pricing.py                                                      *)
(***************************************************************************)
\* d1 of the closed form (options_pricing.py lines 56-58, 99-101, 134-136)
D1(spot, strike, time_to_expiry, risk_free_rate, volatility) ==
    Div(Ln(Div(spot, strike))
          + Mul(risk_free_rate + Mul(SCALE \div 2, Mul(volatility, volatility)),
                time_to_expiry),
        Mul(volatility, Sqrt(time_to_expiry)))

D2(spot, strike, time_to_expiry, risk_free_rate, volatility) ==
    D1(spot, strike, time_to_expiry, risk_free_rate, volatility)
      - Mul(volatility, Sqrt(time_to_expiry))

\* the closed-form value before the floor of line 66
raw_price(spot, strike, time_to_expiry, risk_free_rate, volatility, option_type) ==
    LET d1   == D1(spot, strike, time_to_expiry, risk_free_rate, volatility)
        d2   == D2(spot, strike, time_to_expiry, risk_free_rate, volatility)
        disc == Exp(-Mul(risk_free_rate, time_to_expiry))
    IN IF option_type = "call"
       THEN Mul(spot, Cdf(d1)) - Mul(Mul(strike, disc), Cdf(d2))
       ELSE Mul(Mul(strike, disc), Cdf(-d2)) - Mul(spot, Cdf(-d1))

\* variant: the closed-form value returned without the floor of line 66
black_scholes_price_noclamp(spot, strike, time_to_expiry, risk_free_rate, volatility, option_type) ==
    IF time_to_expiry <= 0
    THEN IF option_type = "call"
         THEN Max(spot - strike, 0)
         ELSE Max(strike - spot, 0)
    ELSE raw_price(spot, strike, time_to_expiry, risk_free_rate, volatility, option_type)

\* variant: spot - strike returned at expiry without max(., 0)
black_scholes_price_nomax(spot, strike, time_to_expiry, risk_free_rate, volatility, option_type) ==
    IF time_to_expiry <= 0
    THEN IF option_type = "call"
         THEN spot - strike
         ELSE strike - spot
    ELSE Max(raw_price(spot, strike, time_to_expiry, risk_free_rate, volatility, option_type), 0)

\* black_scholes_price
black_scholes_price(spot, strike, time_to_expiry, risk_free_rate, volatility, option_type) ==
    IF time_to_expiry <= 0
    THEN IF option_type = "call"
         THEN Max(spot - strike, 0)
         ELSE Max(strike - spot, 0)
    ELSE Max(raw_price(spot, strike, time_to_expiry, risk_free_rate, volatility, option_type), 0)

\* variant: the expiry step taken at spot >= strike / spot <= strike
black_scholes_delta_ge(spot, strike, time_to_expiry, risk_free_rate, volatility, option_type) ==
    IF time_to_expiry <= 0
    THEN IF option_type = "call"
         THEN (IF spot >= strike THEN SCALE ELSE 0)
         ELSE (IF spot <= strike THEN -SCALE ELSE 0)
    ELSE LET d1 == D1(spot, strike, time_to_expiry, risk_free_rate, volatility)
         IN IF option_type = "call" THEN Cdf(d1) ELSE -Cdf(-d1)

\* variant: the put delta returned without its sign
black_scholes_delta_parity(spot, strike, time_to_expiry, risk_free_rate, volatility, option_type) ==
    IF time_to_expiry <= 0
    THEN IF option_type = "call"
         THEN (IF spot > strike THEN SCALE ELSE 0)
         ELSE (IF spot < strike THEN -SCALE ELSE 0)
    ELSE LET d1 == D1(spot, strike, time_to_expiry, risk_free_rate, volatility)
         IN IF option_type = "call" THEN Cdf(d1) ELSE Cdf(-d1)

\* black_scholes_delta
black_scholes_delta(spot, strike, time_to_expiry, risk_free_rate, volatility, option_type) ==
    IF time_to_expiry <= 0
    THEN IF option_type = "call"
         THEN (IF spot > strike THEN SCALE ELSE 0)
         ELSE (IF spot < strike THEN -SCALE ELSE 0)
    ELSE LET d1 == D1(spot, strike, time_to_expiry, risk_free_rate, volatility)
         IN IF option_type = "call" THEN Cdf(d1) ELSE -Cdf(-d1)

\* variant: vega negated for a put
black_scholes_vega_signed(spot, strike, time_to_expiry, risk_free_rate, volatility, option_type) ==
    IF time_to_expiry <= 0
    THEN 0
    ELSE LET d1 == D1(spot, strike, time_to_expiry, risk_free_rate, volatility)
             v  == Mul(Mul(Mul(spot, Pdf(d1)), Sqrt(time_to_expiry)), SCALE \div 100)
         IN IF option_type = "call" THEN v ELSE -v

\* variant: the 0.01 scaling factor returned at expiry
black_scholes_vega_floor(spot, strike, time_to_expiry, risk_free_rate, volatility, option_type) ==
    IF time_to_expiry <= 0
    THEN SCALE \div 100
    ELSE LET d1 == D1(spot, strike, time_to_expiry, risk_free_rate, volatility)
         IN Mul(Mul(Mul(spot, Pdf(d1)), Sqrt(time_to_expiry)), SCALE \div 100)

\* black_scholes_vega
black_scholes_vega(spot, strike, time_to_expiry, risk_free_rate, volatility, option_type) ==
    IF time_to_expiry <= 0
    THEN 0
    ELSE LET d1 == D1(spot, strike, time_to_expiry, risk_free_rate, volatility)
         IN Mul(Mul(Mul(spot, Pdf(d1)), Sqrt(time_to_expiry)), SCALE \div 100)

calculate_greeks(spot, strike, time_to_expiry, risk_free_rate, volatility, option_type) ==
    [delta |-> black_scholes_delta(spot, strike, time_to_expiry, risk_free_rate, volatility, option_type),
     vega  |-> black_scholes_vega(spot, strike, time_to_expiry, risk_free_rate, volatility, option_type)]

(***************************************************************************)
(* Python containers                                                       *)
(***************************************************************************)
\* dict.get(key): None when the key is missing
DictGet(d, key) == IF key \in DOMAIN d THEN <<d[key]>> ELSE <<>>

\* dict.get(key, default)
DictGetOr(d, key, default) == IF key \in DOMAIN d THEN d[key] ELSE default

\* truth value of an Optional[Dict]: None and the empty dict are falsy
Truthy(d) == DOMAIN d # {}

\* every dict with keys among `keys` and values in `vals`
Dicts(keys, vals) == UNION {[s -> vals] : s \in SUBSET keys}

\* sorted(list)
RECURSIVE Insert(_, _)
Insert(x, s) ==
    IF s = <<>> THEN <<x>>
    ELSE IF x <= Head(s) THEN <<x>> \o s
    ELSE <<Head(s)>> \o Insert(x, Tail(s))

RECURSIVE sorted(_)
sorted(s) == IF s = <<>> THEN <<>> ELSE Insert(Head(s), sorted(Tail(s)))

\* np.max / np.min of a non-empty array
RECURSIVE np_max(_)
np_max(a) == IF Len(a) = 1 THEN a[1] ELSE Max(a[1], np_max(Tail(a)))

RECURSIVE np_min(_)
np_min(a) == IF Len(a) = 1 THEN a[1] ELSE Min(a[1], np_min(Tail(a)))

(***************************************************************************)
(* strategy_payoffs.py                                                     *)
(***************************************************************************)
\* variant: the premium added instead of subtracted
long_call_payoff_credit(spot_prices, strike, premium) ==
    [i \in 1..Len(spot_prices) |-> Max(spot_prices[i] - strike, 0) + premium]

long_call_payoff(spot_prices, strike, premium) ==
    [i \in 1..Len(spot_prices) |-> Max(spot_prices[i] - strike, 0) - premium]

long_put_payoff(spot_prices, strike, premium) ==
    [i \in 1..Len(spot_prices) |-> Max(strike - spot_prices[i], 0) - premium]

\* variant: the short call's intrinsic value left out (the stock uncapped)
covered_call_payoff_uncapped(spot_prices, initial_spot, strike, call_premium) ==
    [i \in 1..Len(spot_prices) |-> (spot_prices[i] - initial_spot) + call_premium]

covered_call_payoff(spot_prices, initial_spot, strike, call_premium) ==
    [i \in 1..Len(spot_prices) |->
        LET stock_pnl      == spot_prices[i] - initial_spot
            short_call_pnl == -Max(spot_prices[i] - strike, 0) + call_premium
        IN stock_pnl + short_call_pnl]

bull_call_spread_payoff(spot_prices, lower_strike, higher_strike, lower_premium, higher_premium) ==
    LET net_premium == lower_premium - higher_premium
    IN [i \in 1..Len(spot_prices) |->
          LET long_call  == Max(spot_prices[i] - lower_strike, 0)
              short_call == -Max(spot_prices[i] - higher_strike, 0)
          IN long_call + short_call - net_premium]

bear_put_spread_payoff(spot_prices, higher_strike, lower_strike, higher_premium, lower_premium) ==
    LET net_premium == higher_premium - lower_premium
    IN [i \in 1..Len(spot_prices) |->
          LET long_put  == Max(higher_strike - spot_prices[i], 0)
              short_put == -Max(lower_strike - spot_prices[i], 0)
          IN long_put + short_put - net_premium]

\* variant: only the call premium charged
long_strangle_payoff_callpremium(spot_prices, call_strike, put_strike, call_premium, put_premium) ==
    [i \in 1..Len(spot_prices) |->
        Max(spot_prices[i] - call_strike, 0) + Max(put_strike - spot_prices[i], 0)
          - call_premium]

long_strangle_payoff(spot_prices, call_strike, put_strike, call_premium, put_premium) ==
    LET total_premium == call_premium + put_premium
    IN [i \in 1..Len(spot_prices) |->
          Max(spot_prices[i] - call_strike, 0) + Max(put_strike - spot_prices[i], 0)
            - total_premium]

\* variant: the put leg's intrinsic value left out
long_straddle_payoff_callonly(spot_prices, strike, call_premium, put_premium) ==
    LET total_premium == call_premium + put_premium
    IN [i \in 1..Len(spot_prices) |->
          Max(spot_prices[i] - strike, 0) - total_premium]

long_straddle_payoff(spot_prices, strike, call_premium, put_premium) ==
    LET total_premium == call_premium + put_premium
    IN [i \in 1..Len(spot_prices) |->
          Max(spot_prices[i] - strike, 0) + Max(strike - spot_prices[i], 0)
            - total_premium]

\* variant: the correction added to x1 instead of subtracted
breakeven_added(x1, x2, y1, y2) == x1 + Div(Mul(y1, x2 - x1), y2 - y1)

\* breakeven = x1 - y1 * (x2 - x1) / (y2 - y1), rescaled
breakeven(x1, x2, y1, y2) == x1 - Div(Mul(y1, x2 - x1), y2 - y1)

\* the loop of calculate_breakevens over i = 0 .. len(spot_range) - 2; the
\* sign test is on the exact product
RECURSIVE breakevens_loop(_, _, _)
breakevens_loop(spot_range, payoffs, i) ==
    IF i > Len(spot_range) - 1
    THEN <<>>
    ELSE LET x1 == spot_range[i]
             x2 == spot_range[i + 1]
             y1 == payoffs[i]
             y2 == payoffs[i + 1]
             rest == breakevens_loop(spot_range, payoffs, i + 1)
         IN IF payoffs[i] * payoffs[i + 1] <= 0 /\ y1 # y2
            THEN <<breakeven(x1, x2, y1, y2)>> \o rest
            ELSE rest

\* variant: the list returned as the loop built it
calculate_breakevens_unsorted(payoff_func, spot_range) ==
    LET payoffs == payoff_func[spot_range]
    IN breakevens_loop(spot_range, payoffs, 1)

\* variant: the loop starts at the second pair of adjacent points
calculate_breakevens_skipfirst(payoff_func, spot_range) ==
    LET payoffs == payoff_func[spot_range]
    IN sorted(breakevens_loop(spot_range, payoffs, 2))

\* payoff_func, a callable, is a function defined on the grid it is called with
calculate_breakevens(payoff_func, spot_range) ==
    LET payoffs == payoff_func[spot_range]
    IN sorted(breakevens_loop(spot_range, payoffs, 1))

\* variant: the ends of the array taken for its extremes
calculate_max_profit_loss_ends(payoffs) ==
    [max_profit |-> payoffs[Len(payoffs)], max_loss |-> payoffs[1]]

calculate_max_profit_loss(payoffs) ==
    [max_profit |-> np_max(payoffs), max_loss |-> np_min(payoffs)]

(***************************************************************************)
(* strategy_analyzer.py                                                    *)
(***************************************************************************)
\* OptionsStrategy.__init__
OptionsStrategy_init(cls, spot, time_to_expiry, risk_free_rate, volatility, strategy_name) ==
    [cls            |-> cls,
     spot           |-> spot,
     time_to_expiry |-> time_to_expiry,
     risk_free_rate |-> risk_free_rate,
     volatility     |-> volatility,
     strategy_name  |-> strategy_name,
     premiums       |-> <<>>,
     strikes        |-> <<>>,
     option_types   |-> <<>>,
     positions      |-> <<>>,
     attrs          |-> <<>>]

\* variant: the override tested for truth (if premium_override:), so that a
\* quote of 0 is replaced by the model price
_price_option_truthy(self, strike, option_type, premium_override) ==
    IF premium_override # <<>> /\ premium_override[1] # 0
    THEN premium_override[1]
    ELSE black_scholes_price(self.spot, strike, self.time_to_expiry,
                             self.risk_free_rate, self.volatility, option_type)

\* OptionsStrategy._price_option
_price_option(self, strike, option_type, premium_override) ==
    IF premium_override # <<>>
    THEN premium_override[1]
    ELSE black_scholes_price(self.spot, strike, self.time_to_expiry,
                             self.risk_free_rate, self.volatility, option_type)

\* the loop of OptionsStrategy._calculate_greeks over self.strikes.items()
RECURSIVE greeks_loop(_, _)
greeks_loop(self, keys) ==
    IF keys = {}
    THEN [delta |-> 0, vega |-> 0]
    ELSE LET key   == CHOOSE k \in keys : TRUE
             rest  == greeks_loop(self, keys \ {key})
             delta == black_scholes_delta(self.spot, self.strikes[key],
                          self.time_to_expiry, self.risk_free_rate,
                          self.volatility, self.option_types[key])
             vega  == black_scholes_vega(self.spot, self.strikes[key],
                          self.time_to_expiry, self.risk_free_rate,
                          self.volatility, self.option_types[key])
         IN [delta |-> rest.delta + self.positions[key] * delta,
             vega  |-> rest.vega + self.positions[key] * vega]

\* variant: the loop left after its first leg
OptionsStrategy_calculate_greeks_firstleg(self) ==
    greeks_loop(self, {CHOOSE key \in DOMAIN self.strikes : TRUE})

\* OptionsStrategy._calculate_greeks
OptionsStrategy_calculate_greeks(self) == greeks_loop(self, DOMAIN self.strikes)

\* variant: the stock's delta left out
CoveredCall_calculate_greeks_nostock(self) ==
    OptionsStrategy_calculate_greeks(self)

\* CoveredCall._calculate_greeks: the long stock adds delta 1.0
CoveredCall_calculate_greeks(self) ==
    LET greeks == OptionsStrategy_calculate_greeks(self)
    IN [greeks EXCEPT !.delta = @ + SCALE]

\* method dispatch on type(self)
_calculate_greeks(self) ==
    IF self.cls = "CoveredCall"
    THEN CoveredCall_calculate_greeks(self)
    ELSE OptionsStrategy_calculate_greeks(self)

\* variant: the thresholds 0.5 and 0.05 compared with >=
_interpret_risk_inclusive(greeks) ==
    LET delta == greeks.delta
        vega  == greeks.vega
        direction == IF Abs(delta) >= SCALE \div 2 THEN "Strongly directional"
                     ELSE IF Abs(delta) > SCALE \div 5 THEN "Moderately directional"
                     ELSE "Direction-neutral"
        bias == IF Abs(delta) > SCALE \div 5
                THEN (IF delta > 0 THEN "bullish" ELSE "bearish")
                ELSE ""
        vol_sensitivity == IF Abs(vega) > SCALE \div 10 THEN "High volatility sensitivity"
                           ELSE IF Abs(vega) >= SCALE \div 20 THEN "Moderate volatility sensitivity"
                           ELSE "Low volatility sensitivity"
        vol_bias == IF Abs(vega) >= SCALE \div 20
                    THEN (IF vega > 0 THEN "benefits from" ELSE "hurt by")
                    ELSE ""
    IN <<direction, bias, vol_sensitivity, vol_bias>>

\* OptionsStrategy._interpret_risk: the four parts the label is built from
_interpret_risk(greeks) ==
    LET delta == greeks.delta
        vega  == greeks.vega
        direction == IF Abs(delta) > SCALE \div 2 THEN "Strongly directional"
                     ELSE IF Abs(delta) > SCALE \div 5 THEN "Moderately directional"
                     ELSE "Direction-neutral"
        bias == IF Abs(delta) > SCALE \div 5
                THEN (IF delta > 0 THEN "bullish" ELSE "bearish")
                ELSE ""
        vol_sensitivity == IF Abs(vega) > SCALE \div 10 THEN "High volatility sensitivity"
                           ELSE IF Abs(vega) > SCALE \div 20 THEN "Moderate volatility sensitivity"
                           ELSE "Low volatility sensitivity"
        vol_bias == IF Abs(vega) > SCALE \div 20
                    THEN (IF vega > 0 THEN "benefits from" ELSE "hurt by")
                    ELSE ""
    IN <<direction, bias, vol_sensitivity, vol_bias>>

\* format spec :.2f
Round2(x) == ((x + 5) \div 10) * 10

\* LongCall.__init__
LongCall_init(spot, strike, time_to_expiry, risk_free_rate, volatility, premium_override) ==
    LET self == OptionsStrategy_init("LongCall", spot, time_to_expiry,
                                     risk_free_rate, volatility, "Long Call")
    IN [self EXCEPT
          !.attrs        = ("strike" :> strike),
          !.premiums     = ("call" :> _price_option(self, strike, "call", premium_override)),
          !.strikes      = ("call" :> strike),
          !.option_types = ("call" :> "call"),
          !.positions    = ("call" :> 1)]

\* LongCall.calculate_payoff
LongCall_calculate_payoff(self, spot_prices, premium_overrides) ==
    LET premium == IF Truthy(premium_overrides)
                   THEN DictGetOr(premium_overrides, "call", self.premiums["call"])
                   ELSE self.premiums["call"]
    IN long_call_payoff(spot_prices, self.attrs["strike"], premium)

\* LongCall.get_description: the numbers the text is formatted from
LongCall_get_description(self) ==
    <<Round2(self.attrs["strike"]), Round2(self.premiums["call"]),
      Round2(self.attrs["strike"] + self.premiums["call"])>>

\* LongStraddle.__init__
LongStraddle_init(spot, strike, time_to_expiry, risk_free_rate, volatility, premium_overrides) ==
    LET self == OptionsStrategy_init("LongStraddle", spot, time_to_expiry,
                                     risk_free_rate, volatility, "Long Straddle")
        call_premium_override == IF Truthy(premium_overrides)
                                 THEN DictGet(premium_overrides, "call") ELSE <<>>
        put_premium_override  == IF Truthy(premium_overrides)
                                 THEN DictGet(premium_overrides, "put") ELSE <<>>
    IN [self EXCEPT
          !.attrs        = ("strike" :> strike),
          !.premiums     = ("call" :> _price_option(self, strike, "call", call_premium_override))
                           @@ ("put" :> _price_option(self, strike, "put", put_premium_override)),
          !.strikes      = ("call" :> strike) @@ ("put" :> strike),
          !.option_types = ("call" :> "call") @@ ("put" :> "put"),
          !.positions    = ("call" :> 1) @@ ("put" :> 1)]

\* LongStraddle.calculate_payoff
LongStraddle_calculate_payoff(self, spot_prices, premium_overrides) ==
    LET call_prem == IF Truthy(premium_overrides)
                     THEN DictGetOr(premium_overrides, "call", self.premiums["call"])
                     ELSE self.premiums["call"]
        put_prem  == IF Truthy(premium_overrides)
                     THEN DictGetOr(premium_overrides, "put", self.premiums["put"])
                     ELSE self.premiums["put"]
    IN long_straddle_payoff(spot_prices, self.attrs["strike"], call_prem, put_prem)

\* LongStraddle.get_description: the numbers the text is formatted from
LongStraddle_get_description(self) ==
    LET total_premium == self.premiums["call"] + self.premiums["put"]
    IN <<Round2(self.attrs["strike"]), Round2(total_premium),
         Round2(self.attrs["strike"] - total_premium),
         Round2(self.attrs["strike"] + total_premium)>>

\* the premium of leg `key` a calculate_payoff call works with
\* (premium_overrides.get(key, self.premiums[key]) if premium_overrides
\*  else self.premiums[key])
leg_premium(self, premium_overrides, key) ==
    IF Truthy(premium_overrides)
    THEN DictGetOr(premium_overrides, key, self.premiums[key])
    ELSE self.premiums[key]

\* the override of leg `key` a constructor passes to _price_option
\* (premium_overrides.get(key) if premium_overrides else None)
leg_override(premium_overrides, key) ==
    IF Truthy(premium_overrides) THEN DictGet(premium_overrides, key) ELSE <<>>

\* LongPut.__init__
LongPut_init(spot, strike, time_to_expiry, risk_free_rate, volatility, premium_override) ==
    LET self == OptionsStrategy_init("LongPut", spot, time_to_expiry,
                                     risk_free_rate, volatility, "Long Put")
    IN [self EXCEPT
          !.attrs        = ("strike" :> strike),
          !.premiums     = ("put" :> _price_option(self, strike, "put", premium_override)),
          !.strikes      = ("put" :> strike),
          !.option_types = ("put" :> "put"),
          !.positions    = ("put" :> 1)]

\* LongPut.calculate_payoff
LongPut_calculate_payoff(self, spot_prices, premium_overrides) ==
    long_put_payoff(spot_prices, self.attrs["strike"],
                    leg_premium(self, premium_overrides, "put"))

\* LongPut.get_description: the numbers the text is formatted from
LongPut_get_description(self) ==
    <<Round2(self.attrs["strike"]), Round2(self.premiums["put"]),
      Round2(self.attrs["strike"] - self.premiums["put"])>>

\* CoveredCall.__init__
CoveredCall_init(spot, strike, time_to_expiry, risk_free_rate, volatility, call_premium_override) ==
    LET self == OptionsStrategy_init("CoveredCall", spot, time_to_expiry,
                                     risk_free_rate, volatility, "Covered Call")
    IN [self EXCEPT
          !.attrs        = ("strike" :> strike) @@ ("initial_spot" :> spot),
          !.premiums     = ("call" :> _price_option(self, strike, "call", call_premium_override)),
          !.strikes      = ("call" :> strike),
          !.option_types = ("call" :> "call"),
          !.positions    = ("call" :> -1)]

\* CoveredCall.calculate_payoff
CoveredCall_calculate_payoff(self, spot_prices, premium_overrides) ==
    covered_call_payoff(spot_prices, self.attrs["initial_spot"], self.attrs["strike"],
                        leg_premium(self, premium_overrides, "call"))

\* CoveredCall.get_description: the numbers the text is formatted from
CoveredCall_get_description(self) ==
    <<Round2(self.attrs["initial_spot"]), Round2(self.attrs["strike"]),
      Round2(self.premiums["call"]),
      Round2(self.attrs["initial_spot"] - self.premiums["call"])>>

\* BullCallSpread.__init__
BullCallSpread_init(spot, lower_strike, higher_strike, time_to_expiry, risk_free_rate, volatility, premium_overrides) ==
    LET self == OptionsStrategy_init("BullCallSpread", spot, time_to_expiry,
                                     risk_free_rate, volatility, "Bull Call Spread")
        lower_premium_override  == leg_override(premium_overrides, "lower")
        higher_premium_override == leg_override(premium_overrides, "higher")
    IN [self EXCEPT
          !.attrs        = ("lower_strike" :> lower_strike) @@ ("higher_strike" :> higher_strike),
          !.premiums     = ("lower" :> _price_option(self, lower_strike, "call", lower_premium_override))
                           @@ ("higher" :> _price_option(self, higher_strike, "call", higher_premium_override)),
          !.strikes      = ("lower" :> lower_strike) @@ ("higher" :> higher_strike),
          !.option_types = ("lower" :> "call") @@ ("higher" :> "call"),
          !.positions    = ("lower" :> 1) @@ ("higher" :> -1)]

\* BullCallSpread.calculate_payoff
BullCallSpread_calculate_payoff(self, spot_prices, premium_overrides) ==
    bull_call_spread_payoff(spot_prices, self.attrs["lower_strike"],
                            self.attrs["higher_strike"],
                            leg_premium(self, premium_overrides, "lower"),
                            leg_premium(self, premium_overrides, "higher"))

\* BullCallSpread.get_description: the numbers the text is formatted from
BullCallSpread_get_description(self) ==
    LET net_premium == self.premiums["lower"] - self.premiums["higher"]
        max_profit  == (self.attrs["higher_strike"] - self.attrs["lower_strike"]) - net_premium
    IN <<Round2(self.attrs["lower_strike"]), Round2(self.attrs["higher_strike"]),
         Round2(net_premium), Round2(max_profit), Round2(self.attrs["higher_strike"])>>

\* BearPutSpread.__init__
BearPutSpread_init(spot, higher_strike, lower_strike, time_to_expiry, risk_free_rate, volatility, premium_overrides) ==
    LET self == OptionsStrategy_init("BearPutSpread", spot, time_to_expiry,
                                     risk_free_rate, volatility, "Bear Put Spread")
        higher_premium_override == leg_override(premium_overrides, "higher")
        lower_premium_override  == leg_override(premium_overrides, "lower")
    IN [self EXCEPT
          !.attrs        = ("higher_strike" :> higher_strike) @@ ("lower_strike" :> lower_strike),
          !.premiums     = ("higher" :> _price_option(self, higher_strike, "put", higher_premium_override))
                           @@ ("lower" :> _price_option(self, lower_strike, "put", lower_premium_override)),
          !.strikes      = ("higher" :> higher_strike) @@ ("lower" :> lower_strike),
          !.option_types = ("higher" :> "put") @@ ("lower" :> "put"),
          !.positions    = ("higher" :> 1) @@ ("lower" :> -1)]

\* BearPutSpread.calculate_payoff
BearPutSpread_calculate_payoff(self, spot_prices, premium_overrides) ==
    bear_put_spread_payoff(spot_prices, self.attrs["higher_strike"],
                           self.attrs["lower_strike"],
                           leg_premium(self, premium_overrides, "higher"),
                           leg_premium(self, premium_overrides, "lower"))

\* BearPutSpread.get_description: the numbers the text is formatted from
BearPutSpread_get_description(self) ==
    LET net_premium == self.premiums["higher"] - self.premiums["lower"]
        max_profit  == (self.attrs["higher_strike"] - self.attrs["lower_strike"]) - net_premium
    IN <<Round2(self.attrs["higher_strike"]), Round2(self.attrs["lower_strike"]),
         Round2(net_premium), Round2(max_profit), Round2(self.attrs["lower_strike"])>>

\* LongStrangle.__init__
LongStrangle_init(spot, call_strike, put_strike, time_to_expiry, risk_free_rate, volatility, premium_overrides) ==
    LET self == OptionsStrategy_init("LongStrangle", spot, time_to_expiry,
                                     risk_free_rate, volatility, "Long Strangle")
        call_premium_override == leg_override(premium_overrides, "call")
        put_premium_override  == leg_override(premium_overrides, "put")
    IN [self EXCEPT
          !.attrs        = ("call_strike" :> call_strike) @@ ("put_strike" :> put_strike),
          !.premiums     = ("call" :> _price_option(self, call_strike, "call", call_premium_override))
                           @@ ("put" :> _price_option(self, put_strike, "put", put_premium_override)),
          !.strikes      = ("call" :> call_strike) @@ ("put" :> put_strike),
          !.option_types = ("call" :> "call") @@ ("put" :> "put"),
          !.positions    = ("call" :> 1) @@ ("put" :> 1)]

\* LongStrangle.calculate_payoff
LongStrangle_calculate_payoff(self, spot_prices, premium_overrides) ==
    long_strangle_payoff(spot_prices, self.attrs["call_strike"],
                         self.attrs["put_strike"],
                         leg_premium(self, premium_overrides, "call"),
                         leg_premium(self, premium_overrides, "put"))

\* LongStrangle.get_description: the numbers the text is formatted from
LongStrangle_get_description(self) ==
    LET total_premium == self.premiums["call"] + self.premiums["put"]
    IN <<Round2(self.attrs["call_strike"]), Round2(self.attrs["put_strike"]),
         Round2(total_premium), Round2(self.attrs["put_strike"] - total_premium),
         Round2(self.attrs["call_strike"] + total_premium)>>

\* method dispatch on type(self)
calculate_payoff(self, spot_prices, premium_overrides) ==
    CASE self.cls = "LongCall" ->
           LongCall_calculate_payoff(self, spot_prices, premium_overrides)
      [] self.cls = "LongPut" ->
           LongPut_calculate_payoff(self, spot_prices, premium_overrides)
      [] self.cls = "CoveredCall" ->
           CoveredCall_calculate_payoff(self, spot_prices, premium_overrides)
      [] self.cls = "BullCallSpread" ->
           BullCallSpread_calculate_payoff(self, spot_prices, premium_overrides)
      [] self.cls = "BearPutSpread" ->
           BearPutSpread_calculate_payoff(self, spot_prices, premium_overrides)
      [] self.cls = "LongStraddle" ->
           LongStraddle_calculate_payoff(self, spot_prices, premium_overrides)
      [] self.cls = "LongStrangle" ->
           LongStrangle_calculate_payoff(self, spot_prices, premium_overrides)

get_description(self) ==
    CASE self.cls = "LongCall" -> LongCall_get_description(self)
      [] self.cls = "LongPut" -> LongPut_get_description(self)
      [] self.cls = "CoveredCall" -> CoveredCall_get_description(self)
      [] self.cls = "BullCallSpread" -> BullCallSpread_get_description(self)
      [] self.cls = "BearPutSpread" -> BearPutSpread_get_description(self)
      [] self.cls = "LongStraddle" -> LongStraddle_get_description(self)
      [] self.cls = "LongStrangle" -> LongStrangle_get_description(self)

\* variant: calculate_payoff keeps the overrides (self.premiums.update(...))
calculate_payoff_self_update(self, spot_prices, premium_overrides) ==
    [self EXCEPT !.premiums =
        [key \in DOMAIN self.premiums |-> leg_premium(self, premium_overrides, key)]]

\* variant: calculate_payoff records the net premium under a key of its own
calculate_payoff_self_netkey(self, spot_prices, premium_overrides) ==
    [self EXCEPT !.premiums = @ @@ ("net" :> 0)]

\* the object after calculate_payoff returned: no calculate_payoff method
\* assigns to an attribute of self or to an entry of its dicts
calculate_payoff_self(self, spot_prices, premium_overrides) == self

\* variant: analyze stores the overrides in self.premiums before it returns
analyze_self_update(self, spot_range, premium_overrides) ==
    [self EXCEPT !.premiums =
        [key \in DOMAIN self.premiums |-> leg_premium(self, premium_overrides, key)]]

\* the object after analyze returned: analyze calls calculate_payoff twice
\* (lines 170 and 177) and assigns to no attribute itself; _calculate_greeks,
\* _interpret_risk and get_description only read, and the premiums are
\* handed out as a copy
analyze_self(self, spot_range, premium_overrides) ==
    calculate_payoff_self(
        calculate_payoff_self(self, spot_range, premium_overrides),
        spot_range, premium_overrides)

\* the shape of res
Result(op, raised, premium_overrides, payoffs, greeks, breakevens, max_profit, max_loss, risk_interpretation, premiums, description) ==
    [op                  |-> op,
     raised              |-> raised,
     premium_overrides   |-> premium_overrides,
     payoffs             |-> payoffs,
     greeks              |-> greeks,
     breakevens          |-> breakevens,
     max_profit          |-> max_profit,
     max_loss            |-> max_loss,
     risk_interpretation |-> risk_interpretation,
     premiums            |-> premiums,
     description         |-> description]

NoGreeks == [delta |-> 0, vega |-> 0]

NoResult == Result("none", "", <<>>, <<>>, NoGreeks, <<>>, 0, 0, <<>>, <<>>, <<>>)

\* variant: payoff_func leaves the overrides out, so that the breakevens are
\* those of the stored premiums
analyze_stored_breakevens(self, spot_range, premium_overrides) ==
    LET payoffs == calculate_payoff(self, spot_range, premium_overrides)
        self1   == calculate_payoff_self(self, spot_range, premium_overrides)
        greeks  == _calculate_greeks(self1)
        payoff_func == [sr \in {spot_range} |->
                           calculate_payoff(self1, sr, <<>>)]
        breakevens == calculate_breakevens(payoff_func, spot_range)
        self2   == calculate_payoff_self(self1, spot_range, premium_overrides)
    IN IF Len(payoffs) = 0
       THEN Result("analyze", "ValueError", premium_overrides, <<>>, NoGreeks,
                   <<>>, 0, 0, <<>>, <<>>, <<>>)
       ELSE LET profit_loss == calculate_max_profit_loss(payoffs)
            IN Result("analyze", "", premium_overrides, payoffs, greeks,
                      breakevens, profit_loss.max_profit, profit_loss.max_loss,
                      _interpret_risk(greeks), self2.premiums,
                      get_description(self2))

\* OptionsStrategy.analyze; np.max of an empty array raises ValueError
analyze(self, spot_range, premium_overrides) ==
    LET payoffs == calculate_payoff(self, spot_range, premium_overrides)
        self1   == calculate_payoff_self(self, spot_range, premium_overrides)
        greeks  == _calculate_greeks(self1)
        payoff_func == [sr \in {spot_range} |->
                           calculate_payoff(self1, sr, premium_overrides)]
        breakevens == calculate_breakevens(payoff_func, spot_range)
        self2   == calculate_payoff_self(self1, spot_range, premium_overrides)
    IN IF Len(payoffs) = 0
       THEN Result("analyze", "ValueError", premium_overrides, <<>>, NoGreeks,
                   <<>>, 0, 0, <<>>, <<>>, <<>>)
       ELSE LET profit_loss == calculate_max_profit_loss(payoffs)
            IN Result("analyze", "", premium_overrides, payoffs, greeks,
                      breakevens, profit_loss.max_profit, profit_loss.max_loss,
                      _interpret_risk(greeks), self2.premiums,
                      get_description(self2))

(***************************************************************************)
(* Inputs                                                                  *)
(***************************************************************************)
\* longest price grid a caller passes
MaxGridLen == 4

\* longest grid that is passed in any order; longer grids are strictly
\* increasing, as a PriceGrid is meant to be
MaxUnsortedLen == 3

OptionTypes == {"call", "put"}

\* arguments of the pricer functions
Spots == {90000, 100000, 110000}

Strikes == {90000, 100000, 110000}

Times == {-250, 0, 250, 1000}

Rates == {0, 50}

Vols == {0, 200, 400}

\* the closed form divides by volatility * sqrt(time): with time > 0 the
\* calls enumerated have volatility > 0 (spots and strikes are positive)
PricerArgs ==
    {a \in [spot: Spots, strike: Strikes, time_to_expiry: Times,
            risk_free_rate: Rates, volatility: Vols, option_type: OptionTypes] :
        a.time_to_expiry > 0 => a.volatility > 0}

\* arguments of the strategy constructors
StratSpots == {100000}

StratStrikes == {95000, 100000}

StratTimes == {0, 250}

StratRates == {50}

StratVols == {200}

\* strikes of the two-strike strategies, in the order of the constructor's
\* parameters: first below, equal to and above the second
StrikePairs == {<<95000, 100000>>, <<100000, 100000>>, <<100000, 95000>>}

\* premiums a caller supplies at construction (market quotes)
QuotedPremiums == {0, 5000}

\* quotes supplied to a LongStraddle
StraddlePremiums == {0}

\* quotes supplied to the strategies other than LongCall and LongStraddle
SpreadPremiums == {5000}

\* construction-time override of a LongCall
PremiumOverrides == {<<>>} \cup {<<q>> : q \in QuotedPremiums}

\* construction-time override of a LongPut or CoveredCall
PutPremiumOverrides == {<<>>} \cup {<<q>> : q \in SpreadPremiums}

\* construction-time overrides of a two-strike strategy: none, or a quote
\* for the leg `key` only (the other key is missing from the dict)
SpreadOverrides(key) == {<<>>} \cup {(key :> q) : q \in SpreadPremiums}

\* premiums a caller supplies to one calculate_payoff / analyze call
CallPremiums == {2000}

\* prices a grid is made of
GridPrices == {90000, 95000, 100000, 105000}

IsStrictlyIncreasing(g) == \A i \in 1..(Len(g) - 1) : g[i] < g[i + 1]

Grids ==
    {g \in UNION {[1..n -> GridPrices] : n \in 0..MaxGridLen} :
        Len(g) > MaxUnsortedLen => IsStrictlyIncreasing(g)}

LegKeys(self) == DOMAIN self.strikes

(***************************************************************************)
(* State machine of a strategy object and its caller                       *)
(***************************************************************************)
NoCall == [fn |-> "none", args |-> <<>>, ret |-> 0, greeks |-> NoGreeks, raised |-> ""]

NoStrategy == OptionsStrategy_init("None", 0, 0, 0, 0, "")

\* the constructor call that made the object: the object as constructed and
\* the premium overrides passed, by leg
Built(self, overrides) == [self |-> self, overrides |-> overrides]

NoBuilt == Built(NoStrategy, <<>>)

\* Optional[float] override of the only leg, as a dict by leg
OneLeg(key, premium_override) ==
    IF premium_override = <<>> THEN <<>> ELSE (key :> premium_override[1])

Init ==
    /\ bs = NoCall
    /\ grid \in Grids
    /\ strat = NoStrategy
    /\ res = NoResult
    /\ built = NoBuilt
    /\ repeated = FALSE
    /\ overridden = FALSE

\* LongCall(spot, strike, time_to_expiry, risk_free_rate, volatility, premium_override)
NewLongCall ==
    /\ strat = NoStrategy
    /\ \E spot \in StratSpots, strike \in StratStrikes,
          time_to_expiry \in StratTimes, risk_free_rate \in StratRates,
          volatility \in StratVols, premium_override \in PremiumOverrides :
          /\ strat' = LongCall_init(spot, strike, time_to_expiry,
                                    risk_free_rate, volatility, premium_override)
          /\ built' = Built(strat', OneLeg("call", premium_override))
    /\ UNCHANGED <<bs, grid, res, repeated, overridden>>

\* LongPut(spot, strike, time_to_expiry, risk_free_rate, volatility, premium_override)
NewLongPut ==
    /\ strat = NoStrategy
    /\ \E spot \in StratSpots, strike \in StratStrikes,
          time_to_expiry \in StratTimes, risk_free_rate \in StratRates,
          volatility \in StratVols, premium_override \in PutPremiumOverrides :
          /\ strat' = LongPut_init(spot, strike, time_to_expiry,
                                   risk_free_rate, volatility, premium_override)
          /\ built' = Built(strat', OneLeg("put", premium_override))
    /\ UNCHANGED <<bs, grid, res, repeated, overridden>>

\* CoveredCall(spot, strike, time_to_expiry, risk_free_rate, volatility, call_premium_override)
NewCoveredCall ==
    /\ strat = NoStrategy
    /\ \E spot \in StratSpots, strike \in StratStrikes,
          time_to_expiry \in StratTimes, risk_free_rate \in StratRates,
          volatility \in StratVols, call_premium_override \in PutPremiumOverrides :
          /\ strat' = CoveredCall_init(spot, strike, time_to_expiry,
                                       risk_free_rate, volatility, call_premium_override)
          /\ built' = Built(strat', OneLeg("call", call_premium_override))
    /\ UNCHANGED <<bs, grid, res, repeated, overridden>>

\* BullCallSpread(spot, lower_strike, higher_strike, time_to_expiry, risk_free_rate, volatility, premium_overrides)
NewBullCallSpread ==
    /\ strat = NoStrategy
    /\ \E spot \in StratSpots, strikes \in StrikePairs,
          time_to_expiry \in StratTimes, risk_free_rate \in StratRates,
          volatility \in StratVols,
          premium_overrides \in SpreadOverrides("lower") :
          /\ strat' = BullCallSpread_init(spot, strikes[1], strikes[2], time_to_expiry,
                                          risk_free_rate, volatility, premium_overrides)
          /\ built' = Built(strat', premium_overrides)
    /\ UNCHANGED <<bs, grid, res, repeated, overridden>>

\* BearPutSpread(spot, higher_strike, lower_strike, time_to_expiry, risk_free_rate, volatility, premium_overrides)
NewBearPutSpread ==
    /\ strat = NoStrategy
    /\ \E spot \in StratSpots, strikes \in StrikePairs,
          time_to_expiry \in StratTimes, risk_free_rate \in StratRates,
          volatility \in StratVols,
          premium_overrides \in SpreadOverrides("higher") :
          /\ strat' = BearPutSpread_init(spot, strikes[2], strikes[1], time_to_expiry,
                                         risk_free_rate, volatility, premium_overrides)
          /\ built' = Built(strat', premium_overrides)
    /\ UNCHANGED <<bs, grid, res, repeated, overridden>>

\* LongStraddle(spot, strike, time_to_expiry, risk_free_rate, volatility, premium_overrides)
NewLongStraddle ==
    /\ strat = NoStrategy
    /\ \E spot \in StratSpots, strike \in StratStrikes,
          time_to_expiry \in StratTimes, risk_free_rate \in StratRates,
          volatility \in StratVols,
          premium_overrides \in Dicts({"call", "put"}, StraddlePremiums) :
          /\ strat' = LongStraddle_init(spot, strike, time_to_expiry,
                                        risk_free_rate, volatility, premium_overrides)
          /\ built' = Built(strat', premium_overrides)
    /\ UNCHANGED <<bs, grid, res, repeated, overridden>>

\* LongStrangle(spot, call_strike, put_strike, time_to_expiry, risk_free_rate, volatility, premium_overrides)
NewLongStrangle ==
    /\ strat = NoStrategy
    /\ \E spot \in StratSpots, strikes \in StrikePairs,
          time_to_expiry \in StratTimes, risk_free_rate \in StratRates,
          volatility \in StratVols,
          premium_overrides \in SpreadOverrides("call") :
          /\ strat' = LongStrangle_init(spot, strikes[2], strikes[1], time_to_expiry,
                                        risk_free_rate, volatility, premium_overrides)
          /\ built' = Built(strat', premium_overrides)
    /\ UNCHANGED <<bs, grid, res, repeated, overridden>>

\* strategy.calculate_payoff(grid, premium_overrides); `repeated` records
\* whether the call repeats the previous one (same method, same arguments),
\* `overridden` whether an earlier call on the object passed overrides
CalculatePayoff ==
    /\ strat # NoStrategy
    /\ \E premium_overrides \in Dicts(LegKeys(strat), CallPremiums) :
          /\ res' = Result("calculate_payoff", "", premium_overrides,
                           calculate_payoff(strat, grid, premium_overrides),
                           NoGreeks, <<>>, 0, 0, <<>>, <<>>, <<>>)
          /\ strat' = calculate_payoff_self(strat, grid, premium_overrides)
          /\ repeated' = (res.op = "calculate_payoff"
                            /\ res.premium_overrides = premium_overrides)
          /\ overridden' = (overridden \/ Truthy(res.premium_overrides))
    /\ UNCHANGED <<bs, grid, built>>

\* strategy.analyze(grid, premium_overrides)
Analyze ==
    /\ strat # NoStrategy
    /\ \E premium_overrides \in Dicts(LegKeys(strat), CallPremiums) :
          /\ res' = analyze(strat, grid, premium_overrides)
          /\ strat' = analyze_self(strat, grid, premium_overrides)
          /\ repeated' = (res.op = "analyze"
                            /\ res.premium_overrides = premium_overrides)
          /\ overridden' = (overridden \/ Truthy(res.premium_overrides))
    /\ UNCHANGED <<bs, grid, built>>

Next ==
    \/ NewLongCall
    \/ NewLongPut
    \/ NewCoveredCall
    \/ NewBullCallSpread
    \/ NewBearPutSpread
    \/ NewLongStraddle
    \/ NewLongStrangle
    \/ CalculatePayoff
    \/ Analyze

Spec == Init /\ [][Next]_vars

(***************************************************************************)
(* State machine of a caller of the pricer functions                       *)
(***************************************************************************)
PricerInit ==
    /\ bs = NoCall
    /\ grid = <<>>
    /\ strat = NoStrategy
    /\ res = NoResult
    /\ built = NoBuilt
    /\ repeated = FALSE
    /\ overridden = FALSE

\* no pricer function validates its arguments or has a raise statement:
\* every call enumerated returns a value
CallPrice ==
    /\ \E a \in PricerArgs :
          bs' = [fn |-> "black_scholes_price", args |-> a,
                 ret |-> black_scholes_price(a.spot, a.strike, a.time_to_expiry,
                             a.risk_free_rate, a.volatility, a.option_type),
                 greeks |-> NoGreeks, raised |-> ""]
    /\ UNCHANGED <<grid, strat, res, built, repeated, overridden>>

CallDelta ==
    /\ \E a \in PricerArgs :
          bs' = [fn |-> "black_scholes_delta", args |-> a,
                 ret |-> black_scholes_delta(a.spot, a.strike, a.time_to_expiry,
                             a.risk_free_rate, a.volatility, a.option_type),
                 greeks |-> NoGreeks, raised |-> ""]
    /\ UNCHANGED <<grid, strat, res, built, repeated, overridden>>

CallVega ==
    /\ \E a \in PricerArgs :
          bs' = [fn |-> "black_scholes_vega", args |-> a,
                 ret |-> black_scholes_vega(a.spot, a.strike, a.time_to_expiry,
                             a.risk_free_rate, a.volatility, a.option_type),
                 greeks |-> NoGreeks, raised |-> ""]
    /\ UNCHANGED <<grid, strat, res, built, repeated, overridden>>

CallGreeks ==
    /\ \E a \in PricerArgs :
          bs' = [fn |-> "calculate_greeks", args |-> a, ret |-> 0,
                 greeks |-> calculate_greeks(a.spot, a.strike, a.time_to_expiry,
                               a.risk_free_rate, a.volatility, a.option_type),
                 raised |-> ""]
    /\ UNCHANGED <<grid, strat, res, built, repeated, overridden>>

PricerNext ==
    \/ CallPrice
    \/ CallDelta
    \/ CallVega
    \/ CallGreeks

PricerSpec == PricerInit /\ [][PricerNext]_vars

(***************************************************************************)
(* State machine of a caller of _interpret_risk                            *)
(***************************************************************************)
\* net deltas and vegas around the thresholds of the rule table
NetDeltas == {-1000, -501, -500, -499, -201, -200, -199, 0,
              199, 200, 201, 499, 500, 501, 1000}

NetVegas == {-200, -101, -100, -99, -51, -50, -49, 0,
             49, 50, 51, 99, 100, 101, 200}

RiskInit == PricerInit

CallInterpretRisk ==
    /\ \E delta \in NetDeltas, vega \in NetVegas :
          LET greeks == [delta |-> delta, vega |-> vega]
          IN bs' = [fn |-> "_interpret_risk", args |-> greeks,
                    ret |-> _interpret_risk(greeks),
                    greeks |-> greeks, raised |-> ""]
    /\ UNCHANGED <<grid, strat, res, built, repeated, overridden>>

RiskNext == CallInterpretRisk

RiskSpec == RiskInit /\ [][RiskNext]_vars

(***************************************************************************)
(* Properties of the pricer (checked under PricerSpec)                     *)
(***************************************************************************)
PriceCalled == bs.fn = "black_scholes_price"

DeltaCalled == bs.fn = "black_scholes_delta"

VegaCalled == bs.fn = "black_scholes_vega"

\* C1: black_scholes_price called with time_to_expiry <= 0 returns exactly
\* the intrinsic value, max(spot - strike, 0) for a call and
\* max(strike - spot, 0) for a put.
C1_ExpiryPriceIsIntrinsic ==
    (PriceCalled /\ bs.args.time_to_expiry <= 0) =>
        bs.ret = IF bs.args.option_type = "call"
                 THEN (IF bs.args.spot > bs.args.strike
                       THEN bs.args.spot - bs.args.strike ELSE 0)
                 ELSE (IF bs.args.strike > bs.args.spot
                       THEN bs.args.strike - bs.args.spot ELSE 0)

\* an out-of-the-money put priced at expiry: the value is 0, not spot - strike
C1_Witness ==
    /\ PriceCalled
    /\ bs.args.time_to_expiry <= 0
    /\ bs.args.option_type = "put"
    /\ bs.args.spot > bs.args.strike
    /\ bs.ret = 0

\* C2: for valid inputs, on the expiry branch and on the closed-form branch
\* and for both option kinds, black_scholes_price returns a value >= 0.
C2_PriceNonNegative == PriceCalled => bs.ret >= 0

\* a closed-form value below zero that the floor of line 66 raised to 0
C2_Witness ==
    /\ PriceCalled
    /\ bs.args.time_to_expiry > 0
    /\ raw_price(bs.args.spot, bs.args.strike, bs.args.time_to_expiry,
                 bs.args.risk_free_rate, bs.args.volatility,
                 bs.args.option_type) < 0
    /\ bs.ret = 0

\* C3: two calls of black_scholes_vega whose arguments differ at most in
\* option_type return the same value (a call of either kind can follow any
\* call, so consecutive calls cover every pair).
C3_VegaIgnoresOptionType ==
    [][(VegaCalled /\ bs'.fn = "black_scholes_vega"
          /\ bs'.args = [bs.args EXCEPT !.option_type = bs'.args.option_type])
         => bs'.ret = bs.ret]_vars

\* a put with time left and a positive vega
C3_Witness ==
    /\ VegaCalled
    /\ bs.args.option_type = "put"
    /\ bs.args.time_to_expiry > 0
    /\ bs.ret > 0

\* C4: black_scholes_vega called with time_to_expiry <= 0 returns exactly 0.
C4_ExpiryVegaIsZero ==
    (VegaCalled /\ bs.args.time_to_expiry <= 0) => bs.ret = 0

\* vega asked at the money, at expiry, with a positive volatility
C4_Witness ==
    /\ VegaCalled
    /\ bs.args.time_to_expiry = 0
    /\ bs.args.spot = bs.args.strike
    /\ bs.args.volatility > 0
    /\ bs.ret = 0

\* C5: at expiry black_scholes_delta is the step function: 1 for a call with
\* spot > strike, -1 for a put with spot < strike, and 0 otherwise, in
\* particular 0 for both kinds at spot = strike.
C5_ExpiryDeltaIsStep ==
    (DeltaCalled /\ bs.args.time_to_expiry <= 0) =>
        /\ bs.args.option_type = "call" => bs.ret \in {0, SCALE}
        /\ bs.args.option_type = "put" => bs.ret \in {0, -SCALE}
        /\ bs.args.spot = bs.args.strike => bs.ret = 0
        /\ (bs.args.option_type = "call" /\ bs.args.spot > bs.args.strike)
              => bs.ret = SCALE
        /\ (bs.args.option_type = "call" /\ bs.args.spot < bs.args.strike)
              => bs.ret = 0
        /\ (bs.args.option_type = "put" /\ bs.args.spot < bs.args.strike)
              => bs.ret = -SCALE
        /\ (bs.args.option_type = "put" /\ bs.args.spot > bs.args.strike)
              => bs.ret = 0

\* delta asked at expiry exactly at the strike
C5_Witness ==
    /\ DeltaCalled
    /\ bs.args.time_to_expiry <= 0
    /\ bs.args.spot = bs.args.strike
    /\ bs.ret = 0

\* C6: with time_to_expiry > 0, black_scholes_delta returns a value in
\* [0, 1] for a call and in [-1, 0] for a put.
C6_DeltaRange ==
    (DeltaCalled /\ bs.args.time_to_expiry > 0) =>
        /\ bs.args.option_type = "call" => (0 <= bs.ret /\ bs.ret <= SCALE)
        /\ bs.args.option_type = "put" => (-SCALE <= bs.ret /\ bs.ret <= 0)

\* a put delta strictly inside (-1, 0)
C6_Witness ==
    /\ DeltaCalled
    /\ bs.args.time_to_expiry > 0
    /\ bs.args.option_type = "put"
    /\ -SCALE < bs.ret
    /\ bs.ret < 0

(***************************************************************************)
(* Properties of the strategies (checked under Spec)                       *)
(***************************************************************************)
\* the last call returned a payoff array for the grid
Returned == res.op \in {"calculate_payoff", "analyze"} /\ res.raised = ""

Analyzed == res.op = "analyze" /\ res.raised = ""

\* the premium of a leg in effect in the last call
PremiumUsed(key) ==
    IF key \in DOMAIN res.premium_overrides
    THEN res.premium_overrides[key]
    ELSE strat.premiums[key]

\* x and y lie in the same interval of adjacent grid points
SameGridInterval(x, y) ==
    \E i \in 1..(Len(grid) - 1) :
        /\ grid[i] <= x /\ x <= grid[i + 1]
        /\ grid[i] <= y /\ y <= grid[i + 1]

\* the payoff is non-decreasing in the price over the grid prices >= strike
NonDecreasingFrom(strike) ==
    \A i, j \in 1..Len(grid) :
        (strike <= grid[i] /\ grid[i] <= grid[j]) => res.payoffs[i] <= res.payoffs[j]

\* the payoff is non-increasing in the price over the grid prices <= strike
NonIncreasingUpTo(strike) ==
    \A i, j \in 1..Len(grid) :
        (grid[i] <= grid[j] /\ grid[j] <= strike) => res.payoffs[i] >= res.payoffs[j]

\* C7 as stated: for every LongCall, whatever its premium, and every grid the
\* payoff is strictly negative at every grid price below the strike and
\* non-decreasing over the grid prices at or above the strike.
C7_NegativeBelowStrike ==
    (strat.cls = "LongCall" /\ Returned) =>
        /\ \A i \in 1..Len(grid) :
              grid[i] < strat.attrs["strike"] => res.payoffs[i] < 0
        /\ NonDecreasingFrom(strat.attrs["strike"])

\* C7 amended: for every LongCall and every grid the payoff at every grid
\* price below the strike is minus the premium in effect, hence strictly
\* negative exactly when that premium is positive, and the payoff is
\* non-decreasing over the grid prices at or above the strike.
C7_MinusPremiumBelowStrike ==
    (strat.cls = "LongCall" /\ Returned) =>
        /\ \A i \in 1..Len(grid) :
              grid[i] < strat.attrs["strike"] =>
                 /\ res.payoffs[i] = -PremiumUsed("call")
                 /\ (res.payoffs[i] < 0 <=> PremiumUsed("call") > 0)
        /\ NonDecreasingFrom(strat.attrs["strike"])

\* a model-priced long call paid for, with a loss below the strike and a
\* rising payoff above it
C7_Witness ==
    /\ strat.cls = "LongCall"
    /\ Returned
    /\ res.premium_overrides = <<>>
    /\ strat.premiums["call"] > 0
    /\ \E i, j, k \in 1..Len(grid) :
          /\ grid[i] < strat.attrs["strike"]
          /\ res.payoffs[i] < 0
          /\ strat.attrs["strike"] <= grid[j]
          /\ grid[j] < grid[k]
          /\ res.payoffs[j] < res.payoffs[k]

\* C8: for a LongCall with premium > 0 analysed over a strictly increasing
\* grid whose range contains strike + premium, the breakeven list has exactly
\* one entry, in the grid interval of strike + premium, also when a grid
\* point coincides with strike + premium.
C8_SingleBreakeven ==
    LET be == strat.attrs["strike"] + PremiumUsed("call")
    IN (/\ strat.cls = "LongCall"
        /\ Analyzed
        /\ PremiumUsed("call") > 0
        /\ Len(grid) >= 2
        /\ IsStrictlyIncreasing(grid)
        /\ grid[1] <= be
        /\ be <= grid[Len(grid)])
       => /\ Len(res.breakevens) = 1
          /\ SameGridInterval(res.breakevens[1], be)

\* C9: for a LongStraddle with total premium > 0 analysed over a strictly
\* increasing grid whose range contains strike - total_premium and
\* strike + total_premium, the breakeven list has exactly two entries,
\* strike - total_premium and strike + total_premium, in that order.
\* (Stated for the grids fine enough to separate the two crossings: some
\* grid point lies strictly between them.)
C9_TwoBreakevens ==
    LET total_premium == PremiumUsed("call") + PremiumUsed("put")
        down == strat.attrs["strike"] - total_premium
        up   == strat.attrs["strike"] + total_premium
    IN (/\ strat.cls = "LongStraddle"
        /\ Analyzed
        /\ total_premium > 0
        /\ Len(grid) >= 2
        /\ IsStrictlyIncreasing(grid)
        /\ \E i \in 1..Len(grid) : down < grid[i] /\ grid[i] < up
        /\ grid[1] <= down
        /\ up <= grid[Len(grid)])
       => /\ Len(res.breakevens) = 2
          /\ SameGridInterval(res.breakevens[1], down)
          /\ SameGridInterval(res.breakevens[2], up)

\* C10: the long-straddle payoff is never below -(call_premium + put_premium),
\* equals it at the strike and at no other price, is non-increasing left of
\* the strike and non-decreasing right of it, and analyze reports
\* max_loss = -(call_premium + put_premium) whenever the strike is a grid
\* point.
C10_StraddleMinimumAtStrike ==
    LET total_premium == PremiumUsed("call") + PremiumUsed("put")
        strike == strat.attrs["strike"]
    IN (strat.cls = "LongStraddle" /\ Returned) =>
        /\ \A i \in 1..Len(grid) :
              /\ res.payoffs[i] >= -total_premium
              /\ (res.payoffs[i] = -total_premium <=> grid[i] = strike)
        /\ NonIncreasingUpTo(strike)
        /\ NonDecreasingFrom(strike)
        /\ (res.op = "analyze" /\ \E i \in 1..Len(grid) : grid[i] = strike)
              => res.max_loss = -total_premium

\* a straddle analysed on a grid with the strike between two other prices:
\* max_loss is the payoff at the strike, both neighbours pay more
C10_Witness ==
    /\ strat.cls = "LongStraddle"
    /\ Analyzed
    /\ strat.premiums["call"] + strat.premiums["put"] > 0
    /\ \E i, j, k \in 1..Len(grid) :
          /\ grid[i] < grid[j]
          /\ grid[j] < grid[k]
          /\ grid[j] = strat.attrs["strike"]
          /\ res.payoffs[j] = res.max_loss
          /\ res.payoffs[i] > res.payoffs[j]
          /\ res.payoffs[k] > res.payoffs[j]

\* C11: for every BullCallSpread that can be constructed, whatever the two
\* strike arguments and the premiums, the payoff at every grid price is at
\* most (higher_strike - lower_strike) - net_premium and at least
\* -net_premium, with net_premium = lower premium - higher premium; the
\* upper bound is attained at the prices >= higher_strike and the lower
\* bound at the prices <= lower_strike.
C11_BullCallSpreadBounded ==
    LET net_premium == PremiumUsed("lower") - PremiumUsed("higher")
        upper == (strat.attrs["higher_strike"] - strat.attrs["lower_strike"]) - net_premium
        lower == -net_premium
    IN (strat.cls = "BullCallSpread" /\ Returned) =>
        \A i \in 1..Len(grid) :
            /\ res.payoffs[i] <= upper
            /\ res.payoffs[i] >= lower
            /\ (grid[i] >= strat.attrs["higher_strike"] => res.payoffs[i] = upper)
            /\ (grid[i] <= strat.attrs["lower_strike"] => res.payoffs[i] = lower)

PayoffWith(overrides) ==
    calculate_payoff(
        [built.self EXCEPT !.premiums =
            [key \in DOMAIN built.self.premiums |->
                IF key \in DOMAIN overrides THEN overrides[key]
                ELSE built.self.premiums[key]]],
        grid, <<>>)

\* C13: a calculate_payoff or analyze call with premium_overrides works with
\* the override of each overridden leg and the stored premium of the others,
\* for that call only: the stored premiums stay those of construction, a
\* call without overrides returns the payoff of the object as constructed,
\* whatever calls came before, and analyze reports the construction-time
\* premiums.
C13_OverridesAreTransient ==
    strat # NoStrategy =>
        /\ strat.premiums = built.self.premiums
        /\ Returned => res.payoffs = PayoffWith(res.premium_overrides)
        /\ Analyzed => res.premiums = built.self.premiums

\* a call without overrides after a call with overrides that changed the
\* payoff
C13_Witness ==
    /\ Analyzed
    /\ overridden
    /\ res.premium_overrides = <<>>
    /\ Len(grid) > 0
    /\ \E overrides \in Dicts(LegKeys(strat), CallPremiums) :
          PayoffWith(overrides) # res.payoffs

\* C14: the premium of every leg is the override supplied for it at
\* construction, an override of 0 included, and otherwise the pricer's value
\* for the construction-time market parameters; no call changes it.
C14_PremiumsFixedAtConstruction ==
    strat # NoStrategy =>
        \A key \in DOMAIN strat.premiums :
            strat.premiums[key] =
                IF key \in DOMAIN built.overrides
                THEN built.overrides[key]
                ELSE black_scholes_price(built.self.spot, built.self.strikes[key],
                         built.self.time_to_expiry, built.self.risk_free_rate,
                         built.self.volatility, built.self.option_types[key])

\* a strategy with one leg quoted at 0 and another priced by the model above
\* 0, after calls with and without overrides
C14_Witness ==
    /\ Returned
    /\ overridden
    /\ \E key \in DOMAIN built.overrides :
          built.overrides[key] = 0 /\ strat.premiums[key] = 0
    /\ \E key \in DOMAIN strat.premiums :
          key \notin DOMAIN built.overrides /\ strat.premiums[key] > 0

\* C15: a pricer call with a non-positive spot or strike, a negative
\* volatility or a negative time to expiry fails with InvalidMarketParameter.
C15_InvalidParameterRejected ==
    (/\ bs.fn # "none"
     /\ \/ bs.args.spot <= 0
        \/ bs.args.strike <= 0
        \/ bs.args.volatility < 0
        \/ bs.args.time_to_expiry < 0)
    => bs.raised = "InvalidMarketParameter"

\* C16: analyze on a grid of fewer than two points fails with DegenerateGrid.
C16_DegenerateGridRejected ==
    (res.op = "analyze" /\ Len(grid) < 2) => res.raised = "DegenerateGrid"

\* C17: the breakeven list analyze returns is sorted ascending, for every
\* strategy and every grid, the grids that are not strictly increasing
\* included.
C17_BreakevensSorted ==
    Analyzed =>
        \A i \in 1..(Len(res.breakevens) - 1) :
            res.breakevens[i] <= res.breakevens[i + 1]

\* a grid that is not increasing on which the crossings are met in
\* descending order
C17_Witness ==
    /\ Analyzed
    /\ ~IsStrictlyIncreasing(grid)
    /\ Len(res.breakevens) >= 2
    /\ res.breakevens[1] < res.breakevens[2]
    /\ breakevens_loop(grid, res.payoffs, 1) # res.breakevens

\* the adjacent pairs of the last analysis with a sign change or a zero and
\* unequal payoffs
Crossings ==
    {i \in 1..(Len(grid) - 1) :
        /\ res.payoffs[i] * res.payoffs[i + 1] <= 0
        /\ res.payoffs[i] # res.payoffs[i + 1]}

\* the price at which the line through the points i and i + 1 is zero
CrossingPrice(i) ==
    grid[i] - Div(Mul(res.payoffs[i], grid[i + 1] - grid[i]),
                  res.payoffs[i + 1] - res.payoffs[i])

\* C18: the breakeven list holds one entry for each adjacent pair with
\* payoff[i] * payoff[i+1] <= 0 and payoff[i] # payoff[i+1], the linear
\* interpolation x1 - y1 * (x2 - x1) / (y2 - y1), and nothing else; the pairs
\* of equal payoffs contribute nothing (and no error: the divisor is never 0).
C18_OneEntryPerCrossing ==
    Analyzed =>
        /\ Len(res.breakevens) = Cardinality(Crossings)
        /\ \A v \in {res.breakevens[k] : k \in 1..Len(res.breakevens)}
                 \cup {CrossingPrice(i) : i \in Crossings} :
              Cardinality({k \in 1..Len(res.breakevens) : res.breakevens[k] = v})
                 = Cardinality({i \in Crossings : CrossingPrice(i) = v})

\* an analysis with a crossing, a pair of equal payoffs with a zero product
\* (skipped) and a pair without a sign change
C18_Witness ==
    /\ Analyzed
    /\ Crossings # {}
    /\ \E i \in 1..(Len(grid) - 1) :
          res.payoffs[i] = 0 /\ res.payoffs[i + 1] = 0
    /\ \E i \in 1..(Len(grid) - 1) :
          res.payoffs[i] * res.payoffs[i + 1] > 0
    /\ Len(res.breakevens) = 1

\* C19: max_profit is the largest and max_loss the smallest entry of the
\* payoff array, so max_loss <= max_profit and both are payoffs at grid
\* points.
C19_ExtremesOfPayoffs ==
    Analyzed =>
        /\ \A i \in 1..Len(grid) :
              res.max_loss <= res.payoffs[i] /\ res.payoffs[i] <= res.max_profit
        /\ \E i \in 1..Len(grid) : res.payoffs[i] = res.max_profit
        /\ \E i \in 1..Len(grid) : res.payoffs[i] = res.max_loss
        /\ res.max_loss <= res.max_profit

\* an analysis whose largest payoff is not at the last and whose smallest
\* payoff is not at the first grid point
C19_Witness ==
    /\ Analyzed
    /\ res.max_loss < res.max_profit
    /\ res.payoffs[Len(grid)] # res.max_profit
    /\ res.payoffs[1] # res.max_loss

\* delta and vega of one option at the strategy's market parameters
LegDelta(strike, option_type) ==
    black_scholes_delta(strat.spot, strike, strat.time_to_expiry,
                        strat.risk_free_rate, strat.volatility, option_type)

LegVega(strike, option_type) ==
    black_scholes_vega(strat.spot, strike, strat.time_to_expiry,
                       strat.risk_free_rate, strat.volatility, option_type)

\* position-weighted sum of the legs of each strategy, plus delta 1.0 and
\* vega 0.0 for the stock of a covered call
ExpectedGreeks ==
    CASE strat.cls = "LongCall" ->
           [delta |-> LegDelta(strat.attrs["strike"], "call"),
            vega  |-> LegVega(strat.attrs["strike"], "call")]
      [] strat.cls = "LongPut" ->
           [delta |-> LegDelta(strat.attrs["strike"], "put"),
            vega  |-> LegVega(strat.attrs["strike"], "put")]
      [] strat.cls = "CoveredCall" ->
           [delta |-> SCALE - LegDelta(strat.attrs["strike"], "call"),
            vega  |-> 0 - LegVega(strat.attrs["strike"], "call")]
      [] strat.cls = "BullCallSpread" ->
           [delta |-> LegDelta(strat.attrs["lower_strike"], "call")
                        - LegDelta(strat.attrs["higher_strike"], "call"),
            vega  |-> LegVega(strat.attrs["lower_strike"], "call")
                        - LegVega(strat.attrs["higher_strike"], "call")]
      [] strat.cls = "BearPutSpread" ->
           [delta |-> LegDelta(strat.attrs["higher_strike"], "put")
                        - LegDelta(strat.attrs["lower_strike"], "put"),
            vega  |-> LegVega(strat.attrs["higher_strike"], "put")
                        - LegVega(strat.attrs["lower_strike"], "put")]
      [] strat.cls = "LongStraddle" ->
           [delta |-> LegDelta(strat.attrs["strike"], "call")
                        + LegDelta(strat.attrs["strike"], "put"),
            vega  |-> 2 * LegVega(strat.attrs["strike"], "call")]
      [] strat.cls = "LongStrangle" ->
           [delta |-> LegDelta(strat.attrs["call_strike"], "call")
                        + LegDelta(strat.attrs["put_strike"], "put"),
            vega  |-> LegVega(strat.attrs["call_strike"], "call")
                        + LegVega(strat.attrs["put_strike"], "put")]

\* C20: the net delta and vega analyze reports are the sums over the legs of
\* position times the leg's delta and vega, plus delta 1.0 and vega 0.0 for
\* held stock: a bull call spread has delta(lower) - delta(higher), a
\* straddle twice the vega of one leg.
C20_NetGreeksArePositionWeighted ==
    Analyzed => res.greeks = ExpectedGreeks

\* a bull call spread before expiry whose two legs have different deltas
\* and vegas
C20_Witness ==
    /\ Analyzed
    /\ strat.cls = "BullCallSpread"
    /\ strat.time_to_expiry > 0
    /\ strat.attrs["lower_strike"] < strat.attrs["higher_strike"]
    /\ res.greeks.delta > 0
    /\ res.greeks.delta < LegDelta(strat.attrs["lower_strike"], "call")
    /\ res.greeks.vega # 0

\* C21 as stated: for every CoveredCall the net delta is 1.0 plus the short
\* call's contribution and strictly less than 1.0, and the net vega is minus
\* the call's vega.
C21_CoveredCallDeltaBelowOne ==
    (strat.cls = "CoveredCall" /\ Analyzed) =>
        /\ res.greeks.delta = SCALE - LegDelta(strat.attrs["strike"], "call")
        /\ res.greeks.delta < SCALE
        /\ res.greeks.vega = 0 - LegVega(strat.attrs["strike"], "call")

\* C21 amended: for every CoveredCall the net delta is 1.0 minus the call's
\* delta, at most 1.0, strictly less than 1.0 exactly when the call's delta
\* is positive, and exactly 1.0 at expiry with the spot at or below the
\* strike; the net vega is minus the call's vega.
C21_CoveredCallDeltaAtMostOne ==
    (strat.cls = "CoveredCall" /\ Analyzed) =>
        /\ res.greeks.delta = SCALE - LegDelta(strat.attrs["strike"], "call")
        /\ res.greeks.delta <= SCALE
        /\ (res.greeks.delta < SCALE <=> LegDelta(strat.attrs["strike"], "call") > 0)
        /\ (strat.time_to_expiry <= 0 /\ strat.spot <= strat.attrs["strike"])
              => res.greeks.delta = SCALE
        /\ res.greeks.vega = 0 - LegVega(strat.attrs["strike"], "call")

\* a covered call before expiry: delta between 0 and 1, negative vega
C21_Witness ==
    /\ strat.cls = "CoveredCall"
    /\ Analyzed
    /\ strat.time_to_expiry > 0
    /\ res.greeks.delta > 0
    /\ res.greeks.delta < SCALE
    /\ res.greeks.vega < 0

\* C22: the parts of the risk label follow from |delta| and |vega| by the
\* thresholds 0.5 / 0.2 and 0.1 / 0.05 (strict above, inclusive below), and
\* the bullish / bearish and benefits-from / hurt-by qualifiers appear
\* exactly when the tier is not the lowest, following the sign of delta and
\* of vega.
C22_RiskLabelThresholds ==
    bs.fn = "_interpret_risk" =>
        LET delta == bs.args.delta
            vega  == bs.args.vega
            d     == Abs(delta)
            v     == Abs(vega)
            label == bs.ret
        IN /\ (label[1] = "Strongly directional" <=> d > SCALE \div 2)
           /\ (label[1] = "Moderately directional"
                 <=> (SCALE \div 5 < d /\ d <= SCALE \div 2))
           /\ (label[1] = "Direction-neutral" <=> d <= SCALE \div 5)
           /\ (label[3] = "High volatility sensitivity" <=> v > SCALE \div 10)
           /\ (label[3] = "Moderate volatility sensitivity"
                 <=> (SCALE \div 20 < v /\ v <= SCALE \div 10))
           /\ (label[3] = "Low volatility sensitivity" <=> v <= SCALE \div 20)
           /\ (label[2] # "" <=> d > SCALE \div 5)
           /\ (label[2] = "bullish" <=> (d > SCALE \div 5 /\ delta > 0))
           /\ (label[2] = "bearish" <=> (d > SCALE \div 5 /\ delta < 0))
           /\ (label[4] # "" <=> v > SCALE \div 20)
           /\ (label[4] = "benefits from" <=> (v > SCALE \div 20 /\ vega > 0))
           /\ (label[4] = "hurt by" <=> (v > SCALE \div 20 /\ vega < 0))

\* a label at the thresholds: |delta| = 0.5 is moderate and bearish,
\* |vega| = 0.05 is low and carries no qualifier
C22_Witness ==
    /\ bs.fn = "_interpret_risk"
    /\ bs.args.delta = 0 - (SCALE \div 2)
    /\ bs.args.vega = SCALE \div 20
    /\ bs.ret = <<"Moderately directional", "bearish",
                  "Low volatility sensitivity", "">>

\* C23: after construction and after any calls, with or without overrides,
\* the strikes, option kinds and position signs of all legs are those of
\* construction, and premiums, strikes, option_types and positions have the
\* same set of leg keys.
C23_LegsFixed ==
    strat # NoStrategy =>
        /\ strat.strikes = built.self.strikes
        /\ strat.option_types = built.self.option_types
        /\ strat.positions = built.self.positions
        /\ DOMAIN strat.premiums = DOMAIN strat.strikes
        /\ DOMAIN strat.option_types = DOMAIN strat.strikes
        /\ DOMAIN strat.positions = DOMAIN strat.strikes

\* a two-leg strategy analysed with an override for one leg after an
\* earlier call with overrides
C23_Witness ==
    /\ Analyzed
    /\ overridden
    /\ Cardinality(DOMAIN strat.strikes) = 2
    /\ Cardinality(DOMAIN res.premium_overrides) = 1

\* C24: the covered-call payoff is (S - initial_spot) - max(S - strike, 0)
\* + call_premium at every grid price S; it never exceeds
\* (strike - initial_spot) + call_premium and equals that cap at every
\* S >= strike.
C24_CoveredCallCapped ==
    LET strike == strat.attrs["strike"]
        initial_spot == strat.attrs["initial_spot"]
        call_premium == PremiumUsed("call")
        cap == (strike - initial_spot) + call_premium
    IN (strat.cls = "CoveredCall" /\ Returned) =>
        \A i \in 1..Len(grid) :
            /\ res.payoffs[i] = (grid[i] - initial_spot)
                                  - (IF grid[i] > strike THEN grid[i] - strike ELSE 0)
                                  + call_premium
            /\ res.payoffs[i] <= cap
            /\ (grid[i] >= strike => res.payoffs[i] = cap)

\* a covered call evaluated below its strike (under the cap) and above it
\* (at the cap)
C24_Witness ==
    /\ strat.cls = "CoveredCall"
    /\ Returned
    /\ strat.attrs["initial_spot"] = strat.spot
    /\ \E i, j \in 1..Len(grid) :
          /\ grid[i] < strat.attrs["strike"]
          /\ grid[j] > strat.attrs["strike"]
          /\ res.payoffs[i] < res.payoffs[j]
          /\ res.payoffs[j] = (strat.attrs["strike"] - strat.attrs["initial_spot"])
                                + PremiumUsed("call")

\* C25: for every BearPutSpread that can be constructed, whatever the two
\* strike arguments and the premiums, the payoff at every grid price is at
\* least -net_premium and at most (higher_strike - lower_strike)
\* - net_premium, with net_premium = higher premium - lower premium; the
\* maximum is taken at the prices <= lower_strike and the minimum at the
\* prices >= higher_strike.
C25_BearPutSpreadBounded ==
    LET net_premium == PremiumUsed("higher") - PremiumUsed("lower")
        upper == (strat.attrs["higher_strike"] - strat.attrs["lower_strike"]) - net_premium
        lower == 0 - net_premium
    IN (strat.cls = "BearPutSpread" /\ Returned) =>
        \A i \in 1..Len(grid) :
            /\ res.payoffs[i] >= lower
            /\ res.payoffs[i] <= upper
            /\ (grid[i] <= strat.attrs["lower_strike"] => res.payoffs[i] = upper)
            /\ (grid[i] >= strat.attrs["higher_strike"] => res.payoffs[i] = lower)

\* C26: on a strictly increasing grid every reported breakeven is the
\* crossing of an adjacent pair (i, i+1) and lies in [grid[i], grid[i+1]];
\* hence every breakeven lies between the first and the last grid price and
\* the list has at most len(grid) - 1 entries.
C26_BreakevensInsideGrid ==
    (Analyzed /\ IsStrictlyIncreasing(grid)) =>
        /\ \A k \in 1..Len(res.breakevens) :
              /\ \E i \in Crossings :
                    /\ res.breakevens[k] = CrossingPrice(i)
                    /\ grid[i] <= res.breakevens[k]
                    /\ res.breakevens[k] <= grid[i + 1]
              /\ grid[1] <= res.breakevens[k]
              /\ res.breakevens[k] <= grid[Len(grid)]
        /\ Len(res.breakevens) <= Len(grid) - 1

\* an increasing grid with a breakeven strictly inside an interval and
\* fewer breakevens than intervals
C26_Witness ==
    /\ Analyzed
    /\ IsStrictlyIncreasing(grid)
    /\ Len(grid) >= 3
    /\ Len(res.breakevens) >= 1
    /\ Len(res.breakevens) < Len(grid) - 1
    /\ \E i \in 1..(Len(grid) - 1) :
          grid[i] < res.breakevens[1] /\ res.breakevens[1] < grid[i + 1]

\* C27: in every result of analyze, with or without overrides, payoffs has
\* one entry per grid point, in grid order (entry i is the payoff at
\* grid[i] for the premiums in effect), the breakevens are the crossings of
\* exactly that array on the grid and max_profit and max_loss are its
\* maximum and minimum.
C27_ResultDerivedFromPayoffs ==
    Analyzed =>
        /\ Len(res.payoffs) = Len(grid)
        /\ \A i \in 1..Len(grid) :
              res.payoffs[i] =
                 calculate_payoff(strat, <<grid[i]>>, res.premium_overrides)[1]
        /\ res.breakevens =
              calculate_breakevens([sr \in {grid} |-> res.payoffs], grid)
        /\ res.max_profit = np_max(res.payoffs)
        /\ res.max_loss = np_min(res.payoffs)

\* an analysis with overrides whose breakevens differ from those of the
\* stored premiums
C27_Witness ==
    /\ Analyzed
    /\ Truthy(res.premium_overrides)
    /\ Len(res.breakevens) > 0
    /\ res.breakevens #
          calculate_breakevens([sr \in {grid} |-> PayoffWith(<<>>)], grid)

\* C28: a long strangle whose call strike equals its put strike pays what a
\* long straddle at that strike pays, at every grid price and for all
\* premiums.
C28_StrangleIsStraddle ==
    (/\ strat.cls = "LongStrangle"
     /\ Returned
     /\ strat.attrs["call_strike"] = strat.attrs["put_strike"])
    => res.payoffs = long_straddle_payoff(grid, strat.attrs["call_strike"],
                         PremiumUsed("call"), PremiumUsed("put"))

\* a strangle with equal strikes and two paid premiums, evaluated on both
\* sides of the strike
C28_Witness ==
    /\ strat.cls = "LongStrangle"
    /\ Returned
    /\ strat.attrs["call_strike"] = strat.attrs["put_strike"]
    /\ PremiumUsed("call") > 0
    /\ PremiumUsed("put") > 0
    /\ \E i, j \in 1..Len(grid) :
          /\ grid[i] < strat.attrs["call_strike"]
          /\ grid[j] > strat.attrs["call_strike"]

====
